---- MODULE Spec2Model ----
(***************************************************************************)
(* Ticketed ring buffers of mlmpc-ring: RingMPMC (ring_mpmc.hpp) and       *)
(* RingSPSC (ring_spsc.hpp).  Every atomic load, store, CAS and fetch_add  *)
(* and every access to a slot's storage is one step of the calling thread. *)
(* Atomics are modelled sequentially consistent.                           *)
(***************************************************************************)
EXTENDS Integers, Naturals, Sequences, FiniteSets, TLC

VARIABLES variant, capacity_, mask_, slots_, head_, tail_, th, produced, consumed, ret,
          flush, harness

vars == <<variant, capacity_, mask_, slots_, head_, tail_, th, produced, consumed, ret,
          flush, harness>>

\* the ring's fields that no member function assigns
consts == <<variant, capacity_, mask_>>

(* ------------------------------ bounds --------------------------------- *)

\* largest capacity a constructor call requests
MaxRequested == 2
\* the same, in the runs that construct either ring
MaxRequestedRings == 3
\* logical indices claimed in a run beyond the ring's capacity (the wrap-around)
ExtraItems == 1
\* largest n passed to enqueue_many / dequeue_many
MaxN == 3
\* largest capacity requested in the runs of non-overlapping calls
MaxRequestedSeq == 4
\* largest capacity requested in the runs that check the rounding
MaxRequestedPow2 == 17
\* exponents of the powers of two the capacities are compared with
MaxExponent == 20
\* largest buffer a producer of the benchmark flushes
MaxFlush == 5
\* largest number of items the smoke test moves
MaxSmoke == 3
\* items_per_producer, the producers' buffer size and batch of the exactly-once test
ItemsPerProducer == 2
HarnessBuf == 2
HarnessBatch == 2

Producers == {"p1", "p2"}
Consumers == {"c1", "c2"}
Threads == Producers \cup Consumers

\* the single producer and the single consumer of a RingSPSC
SpscProducer == "p1"
SpscConsumer == "c1"

\* storage that holds no constructed element
NoVal == <<>>

(* ------------------------------ utils.hpp ------------------------------ *)

RECURSIVE BitAnd(_, _)
BitAnd(a, b) ==
    IF a = 0 \/ b = 0 THEN 0
    ELSE (a % 2) * (b % 2) + 2 * BitAnd(a \div 2, b \div 2)

RECURSIVE BitOr(_, _)
BitOr(a, b) ==
    IF a = 0 THEN b
    ELSE IF b = 0 THEN a
    ELSE (IF a % 2 = 1 \/ b % 2 = 1 THEN 1 ELSE 0) + 2 * BitOr(a \div 2, b \div 2)

RECURSIVE Shr(_, _)
Shr(x, k) == IF k = 0 \/ x = 0 THEN x ELSE Shr(x \div 2, k - 1)

\* x |= x >> k
OrShr(x, k) == BitOr(x, Shr(x, k))

\* mutant: the decrement before the shifts is left out
next_pow2NoDecrement(x) ==
    IF x <= 1 THEN 1
    ELSE LET x1 == OrShr(x, 1)
             x2 == OrShr(x1, 2)
             x3 == OrShr(x2, 4)
         IN  x3 + 1

next_pow2(x) ==
    IF x <= 1 THEN 1
    ELSE LET x0 == x - 1
             x1 == OrShr(x0, 1)
             x2 == OrShr(x1, 2)
             x3 == OrShr(x2, 4)
             x4 == OrShr(x3, 8)
             x5 == OrShr(x4, 16)
             x6 == OrShr(x5, 32)
         IN  x6 + 1

(* ------------------------------ the ring ------------------------------- *)

\* mutant: the mask loses its top bit
slotHalfMask(idx) == BitAnd(idx, mask_ \div 2)

\* Slot<T>& slot(idx): slots_[idx & mask_]
slot(idx) == BitAnd(idx, mask_)

\* the value try_enqueue / enqueue_many callers pass: the k-th item of producer p
Item(p, k) == <<p, k>>

\* the caller's buffer of the next n items of producer p
Buffer(p, n) == [j \in 1..n |-> Item(p, Len(produced[p]) + j)]

\* the caller's output buffer before anything was dequeued into it
EmptyOut == [j \in 1..MaxN |-> NoVal]

\* a thread outside any call; out is the caller's output buffer
Idle(out) ==
    [pc |-> "idle", pos |-> 0, start |-> 0, i |-> 0, done |-> 0, n |-> 0,
     want |-> 0, ready |-> 0, data |-> <<>>, out |-> out]

\* ret in a state that no return led to
NoRet == [thread |-> "none", op |-> "none", n |-> 0, ok |-> FALSE, count |-> 0]

\* RingMPMC(capacity) / RingSPSC(capacity): the state after construction
\* the locals of a producer thread of the benchmark before its first push_back:
\* buf, placed, and pushed, the number of items it has put into buf so far
NoFlush == [buf |-> <<>>, placed |-> 0, pushed |-> 0]

\* the ids the exactly-once test pushes: base + i of every producer
HarnessIds == {Item(p, k) : p \in Producers, k \in 1..ItemsPerProducer}

\* TOTAL = items_per_producer * producers
TOTAL == ItemsPerProducer * Cardinality(Producers)

\* the exactly-once test before go: the shared consumed counter, the visited flags
\* and, per consumer thread, where it is in its loop (at), got and the marking index i
NoHarness ==
    [consumed |-> 0,
     visited |-> [id \in HarnessIds |-> 0],
     cons |-> [c \in Consumers |-> [at |-> "call", got |-> 0, i |-> 0]]]

Constructed(kind, requested) ==
    /\ variant = kind
    /\ capacity_ = next_pow2(requested)
    /\ mask_ = capacity_ - 1
    /\ slots_ = [k \in 0..(capacity_ - 1) |-> [seq |-> k, storage |-> NoVal]]
    /\ head_ = 0
    /\ tail_ = 0
    /\ th = [t \in Threads |-> Idle(EmptyOut)]
    /\ produced = [p \in Producers |-> <<>>]
    /\ consumed = [c \in Consumers |-> <<>>]
    /\ flush = [p \in Producers |-> NoFlush]
    /\ harness = NoHarness
    /\ ret = [thread |-> "none", op |-> "construct", n |-> requested, ok |-> FALSE,
              count |-> 0]

\* mutant: the counter is stored without being compared
CasAlwaysSucceeds(counter, expected) == TRUE

\* compare_exchange on a counter: succeeds when the counter holds the expected value
CasSucceeds(counter, expected) == counter = expected

\* mutant: n is not clamped to the capacity
ClampNone(n) == n

\* want = (n > capacity_) ? capacity_ : n
Clamp(n) == IF n > capacity_ THEN capacity_ ELSE n

\* mutant: the producer expects the ticket before its index
ProducerExpectedPrevious(idx) == idx - 1

\* mutant: the producer waits for the Written ticket
ProducerExpectedWritten(idx) == idx + 1

\* the ticket a producer of logical index idx waits for
ProducerExpected(idx) == idx

\* mutant: the consumer takes the Empty ticket for the Written one
ConsumerExpectedEmpty(idx) == idx

\* the ticket a consumer of logical index idx waits for
ConsumerExpected(idx) == idx + 1

\* mutant: the producer publishes the ticket of a freed slot
PublishedSeqFreed(idx) == idx + capacity_

\* mutant: the published ticket is one too far
PublishedSeqOffByOne(idx) == idx + 2

\* the ticket a producer publishes after writing logical index idx
PublishedSeq(idx) == idx + 1

\* mutant: the freed ticket is one short of the next generation
FreedSeqShort(idx) == idx + capacity_ - 1

\* the ticket a consumer stores after reading logical index idx
FreedSeq(idx) == idx + capacity_

\* s.seq.load(ACQUIRE) of the slot of logical index idx
Seq_(idx) == slots_[slot(idx)].seq

\* mutant: the consumer reads the storage of the next slot
StoredNext(idx) == slots_[slot(idx + 1)].storage

\* *s.ptr() of the slot of logical index idx
Stored(idx) == slots_[slot(idx)].storage

\* producer side: construct v in the slot, then release-store the ticket
Publish(idx, v) ==
    slots_' = [slots_ EXCEPT ![slot(idx)] = [seq |-> PublishedSeq(idx), storage |-> v]]

\* consumer side: destroy the element, then release-store the ticket
Free(idx) ==
    slots_' = [slots_ EXCEPT ![slot(idx)] = [seq |-> FreedSeq(idx), storage |-> NoVal]]

\* mutant: every element is read from data[0]
ElemFirst(data, i) == data[1]

\* data[i], the subscript counted from 0 as in the source
Elem(data, i) == data[i + 1]

\* thread t moves on inside its call
SetTh(t, r) ==
    /\ th' = [th EXCEPT ![t] = r]
    /\ ret' = NoRet
    /\ flush' = flush
    /\ harness' = harness

\* mutant: a failing call clears the caller's out argument
ReturnClearingOut(t, out, op, n, ok, count) ==
    /\ th' = [th EXCEPT ![t] = Idle(IF ok \/ count > 0 THEN out ELSE EmptyOut)]
    /\ ret' = [thread |-> t, op |-> op, n |-> n, ok |-> ok, count |-> count]
    /\ flush' = flush
    /\ harness' = harness

\* thread t returns from op(n) with a bool (ok) or a count
Return(t, out, op, n, ok, count) ==
    /\ th' = [th EXCEPT ![t] = Idle(out)]
    /\ ret' = [thread |-> t, op |-> op, n |-> n, ok |-> ok, count |-> count]
    /\ flush' = flush
    /\ harness' = harness

\* logical indices the producers claim in a run, all threads together
MaxItems == capacity_ + ExtraItems

\* producers inside try_enqueue that have not claimed an index yet
Claiming == {p \in Producers : th[p].pc \in {"te_seq", "te_reload", "te_cas"}}

\* logical indices still to be claimed in this run
Remaining == MaxItems - tail_ - Cardinality(Claiming)

(* ----------------------- RingMPMC::try_enqueue ------------------------- *)
(* The T&& overload (lines 70-89) has the same steps.                      *)

\* call, and pos = tail_.load(RELAXED)
TryEnqueueBegin(p) ==
    /\ variant = "MPMC"
    /\ th[p].pc = "idle"
    /\ Remaining >= 1
    /\ SetTh(p, [th[p] EXCEPT !.pc = "te_seq", !.pos = tail_, !.data = Buffer(p, 1)])
    /\ UNCHANGED <<consts, slots_, head_, tail_, produced, consumed>>

\* seq = s.seq.load(ACQUIRE); diff = seq - pos; the three branches
TryEnqueueLoadSeq(p) ==
    /\ th[p].pc = "te_seq"
    /\ LET diff == Seq_(th[p].pos) - ProducerExpected(th[p].pos) IN
         IF diff = 0 THEN SetTh(p, [th[p] EXCEPT !.pc = "te_cas"])
         ELSE IF diff < 0
              THEN Return(p, th[p].out, "try_enqueue", 0, FALSE, 0)
              ELSE SetTh(p, [th[p] EXCEPT !.pc = "te_reload"])
    /\ UNCHANGED <<consts, slots_, head_, tail_, produced, consumed>>

\* diff > 0: pos = tail_.load(RELAXED)
TryEnqueueReload(p) ==
    /\ th[p].pc = "te_reload"
    /\ SetTh(p, [th[p] EXCEPT !.pc = "te_seq", !.pos = tail_])
    /\ UNCHANGED <<consts, slots_, head_, tail_, produced, consumed>>

\* tail_.compare_exchange_weak(pos, pos + 1); on failure pos holds tail_
TryEnqueueCas(p) ==
    /\ th[p].pc = "te_cas"
    /\ IF CasSucceeds(tail_, th[p].pos)
       THEN /\ tail_' = th[p].pos + 1
            /\ SetTh(p, [th[p] EXCEPT !.pc = "te_pub"])
       ELSE /\ tail_' = tail_
            /\ SetTh(p, [th[p] EXCEPT !.pc = "te_seq", !.pos = tail_])
    /\ UNCHANGED <<consts, slots_, head_, produced, consumed>>

\* new (s.ptr()) T(v); s.seq.store(pos + 1, RELEASE); return true
TryEnqueuePublish(p) ==
    /\ th[p].pc = "te_pub"
    /\ Publish(th[p].pos, Elem(th[p].data, 0))
    /\ produced' = [produced EXCEPT ![p] = Append(@, <<th[p].pos, Elem(th[p].data, 0)>>)]
    /\ Return(p, th[p].out, "try_enqueue", 0, TRUE, 0)
    /\ UNCHANGED <<consts, head_, tail_, consumed>>

(* ----------------------- RingMPMC::try_dequeue ------------------------- *)

\* call, and pos = head_.load(RELAXED)
TryDequeueBegin(c) ==
    /\ variant = "MPMC"
    /\ th[c].pc = "idle"
    /\ SetTh(c, [th[c] EXCEPT !.pc = "td_seq", !.pos = head_])
    /\ UNCHANGED <<consts, slots_, head_, tail_, produced, consumed>>

\* seq = s.seq.load(ACQUIRE); diff = seq - (pos + 1); the three branches
TryDequeueLoadSeq(c) ==
    /\ th[c].pc = "td_seq"
    /\ LET diff == Seq_(th[c].pos) - ConsumerExpected(th[c].pos) IN
         IF diff = 0 THEN SetTh(c, [th[c] EXCEPT !.pc = "td_cas"])
         ELSE IF diff < 0
              THEN Return(c, th[c].out, "try_dequeue", 0, FALSE, 0)
              ELSE SetTh(c, [th[c] EXCEPT !.pc = "td_reload"])
    /\ UNCHANGED <<consts, slots_, head_, tail_, produced, consumed>>

\* diff > 0: pos = head_.load(RELAXED)
TryDequeueReload(c) ==
    /\ th[c].pc = "td_reload"
    /\ SetTh(c, [th[c] EXCEPT !.pc = "td_seq", !.pos = head_])
    /\ UNCHANGED <<consts, slots_, head_, tail_, produced, consumed>>

\* head_.compare_exchange_weak(pos, pos + 1); on failure pos holds head_
TryDequeueCas(c) ==
    /\ th[c].pc = "td_cas"
    /\ IF CasSucceeds(head_, th[c].pos)
       THEN /\ head_' = th[c].pos + 1
            /\ SetTh(c, [th[c] EXCEPT !.pc = "td_pub"])
       ELSE /\ head_' = head_
            /\ SetTh(c, [th[c] EXCEPT !.pc = "td_seq", !.pos = head_])
    /\ UNCHANGED <<consts, slots_, tail_, produced, consumed>>

\* out = std::move(*p); p->~T(); s.seq.store(pos + capacity_, RELEASE); return true
TryDequeuePublish(c) ==
    /\ th[c].pc = "td_pub"
    /\ Free(th[c].pos)
    /\ consumed' = [consumed EXCEPT ![c] = Append(@, <<th[c].pos, Stored(th[c].pos)>>)]
    /\ Return(c, [th[c].out EXCEPT ![1] = Stored(th[c].pos)], "try_dequeue", 0, TRUE, 0)
    /\ UNCHANGED <<consts, head_, tail_, produced>>

(* ---------------- RingMPMC::enqueue_many(const T*, size_t) --------------- *)
(* The span overload (lines 121-147) has the same steps.                   *)

\* if (n == 0) return 0; want = clamp(n); start = tail_.fetch_add(want, ACQ_REL)
EnqueueManyBegin(p, n) ==
    /\ variant = "MPMC"
    /\ th[p].pc = "idle"
    /\ IF n = 0
       THEN /\ Return(p, th[p].out, "enqueue_many", n, FALSE, 0)
            /\ tail_' = tail_
       ELSE /\ Clamp(n) <= Remaining
            /\ tail_' = tail_ + Clamp(n)
            /\ SetTh(p, [th[p] EXCEPT !.pc = "em_wait", !.n = n, !.want = Clamp(n),
                                      !.start = tail_, !.i = 0, !.done = 0,
                                      !.data = Buffer(p, n)])
    /\ UNCHANGED <<consts, slots_, head_, produced, consumed>>

\* for (;;) { seq = s.seq.load(ACQUIRE); if (seq == expected) break; ... }
EnqueueManyWait(p) ==
    /\ th[p].pc = "em_wait"
    /\ IF Seq_(th[p].start + th[p].i) = ProducerExpected(th[p].start + th[p].i)
       THEN SetTh(p, [th[p] EXCEPT !.pc = "em_pub"])
       ELSE SetTh(p, th[p])
    /\ UNCHANGED <<consts, slots_, head_, tail_, produced, consumed>>

\* new (s.ptr()) T(data[i]); s.seq.store(idx + 1, RELEASE); ++done; ++i;
\* after the last one: return done
EnqueueManyPublish(p) ==
    /\ th[p].pc = "em_pub"
    /\ Publish(th[p].start + th[p].i, Elem(th[p].data, th[p].i))
    /\ produced' = [produced EXCEPT
                      ![p] = Append(@, <<th[p].start + th[p].i, Elem(th[p].data, th[p].i)>>)]
    /\ IF th[p].i + 1 < th[p].want
       THEN SetTh(p, [th[p] EXCEPT !.pc = "em_wait", !.i = @ + 1, !.done = @ + 1])
       ELSE Return(p, th[p].out, "enqueue_many", th[p].n, FALSE, th[p].done + 1)
    /\ UNCHANGED <<consts, head_, tail_, consumed>>

(* ------------------- RingMPMC::dequeue_many(T*, size_t) ----------------- *)

\* if (n == 0) return 0; n = clamp(n); first pass: start = head_.load(RELAXED)
DequeueManyBegin(c, n) ==
    /\ variant = "MPMC"
    /\ th[c].pc = "idle"
    /\ IF n = 0
       THEN Return(c, th[c].out, "dequeue_many", n, FALSE, 0)
       ELSE SetTh(c, [th[c] EXCEPT !.pc = "dm_scan", !.n = Clamp(n),
                                   !.start = head_, !.ready = 0])
    /\ UNCHANGED <<consts, slots_, head_, tail_, produced, consumed>>

\* after a lost CAS: start = head_.load(RELAXED); ready = 0
DequeueManyLoadHead(c) ==
    /\ th[c].pc = "dm_head"
    /\ SetTh(c, [th[c] EXCEPT !.pc = "dm_scan", !.start = head_, !.ready = 0])
    /\ UNCHANGED <<consts, slots_, head_, tail_, produced, consumed>>

\* one iteration of while (ready < n): the seq load, then ++ready or break;
\* after the loop: if (ready == 0) return 0
DequeueManyScan(c) ==
    /\ th[c].pc = "dm_scan"
    /\ IF Seq_(th[c].start + th[c].ready) # ConsumerExpected(th[c].start + th[c].ready)
       THEN IF th[c].ready = 0
            THEN Return(c, th[c].out, "dequeue_many", th[c].n, FALSE, 0)
            ELSE SetTh(c, [th[c] EXCEPT !.pc = "dm_cas"])
       ELSE IF th[c].ready + 1 < th[c].n
            THEN SetTh(c, [th[c] EXCEPT !.ready = @ + 1])
            ELSE SetTh(c, [th[c] EXCEPT !.ready = @ + 1, !.pc = "dm_cas"])
    /\ UNCHANGED <<consts, slots_, head_, tail_, produced, consumed>>

\* head_.compare_exchange_weak(start, start + ready); on failure start holds head_
DequeueManyCas(c) ==
    /\ th[c].pc = "dm_cas"
    /\ IF CasSucceeds(head_, th[c].start)
       THEN /\ head_' = th[c].start + th[c].ready
            /\ SetTh(c, [th[c] EXCEPT !.pc = "dm_pub", !.i = 0])
       ELSE /\ head_' = head_
            /\ SetTh(c, [th[c] EXCEPT !.pc = "dm_head", !.start = head_])
    /\ UNCHANGED <<consts, slots_, tail_, produced, consumed>>

\* out[i] = std::move(*p); p->~T(); s.seq.store(idx + capacity_, RELEASE); ++i;
\* after the last one: return ready
DequeueManyFree(c) ==
    /\ th[c].pc = "dm_pub"
    /\ Free(th[c].start + th[c].i)
    /\ consumed' = [consumed EXCEPT
                      ![c] = Append(@, <<th[c].start + th[c].i, Stored(th[c].start + th[c].i)>>)]
    /\ LET out == [th[c].out EXCEPT ![th[c].i + 1] = Stored(th[c].start + th[c].i)] IN
         IF th[c].i + 1 < th[c].ready
         THEN SetTh(c, [th[c] EXCEPT !.i = @ + 1, !.out = out])
         ELSE Return(c, out, "dequeue_many", th[c].n, FALSE, th[c].ready)
    /\ UNCHANGED <<consts, head_, tail_, produced>>

(* ------------------- RingMPMC::dequeue_many(std::span<T>) --------------- *)

\* if (n == 0) return 0; want = clamp(n); start = head_.fetch_add(want, ACQ_REL)
DequeueManySpanBegin(c, n) ==
    /\ variant = "MPMC"
    /\ th[c].pc = "idle"
    /\ IF n = 0
       THEN /\ Return(c, th[c].out, "dequeue_many_span", n, FALSE, 0)
            /\ head_' = head_
       ELSE /\ head_ + Clamp(n) <= MaxItems
            /\ head_' = head_ + Clamp(n)
            /\ SetTh(c, [th[c] EXCEPT !.pc = "ds_wait", !.n = n, !.want = Clamp(n),
                                      !.start = head_, !.i = 0, !.done = 0])
    /\ UNCHANGED <<consts, slots_, tail_, produced, consumed>>

\* for (;;) { seq = s.seq.load(ACQUIRE); if (seq == expected) break; ... }
DequeueManySpanWait(c) ==
    /\ th[c].pc = "ds_wait"
    /\ IF Seq_(th[c].start + th[c].i) = ConsumerExpected(th[c].start + th[c].i)
       THEN SetTh(c, [th[c] EXCEPT !.pc = "ds_pub"])
       ELSE SetTh(c, th[c])
    /\ UNCHANGED <<consts, slots_, head_, tail_, produced, consumed>>

\* out[i] = std::move(*p); p->~T(); s.seq.store(idx + capacity_, RELEASE); ++done; ++i;
\* after the last one: return done
DequeueManySpanFree(c) ==
    /\ th[c].pc = "ds_pub"
    /\ Free(th[c].start + th[c].i)
    /\ consumed' = [consumed EXCEPT
                      ![c] = Append(@, <<th[c].start + th[c].i, Stored(th[c].start + th[c].i)>>)]
    /\ LET out == [th[c].out EXCEPT ![th[c].i + 1] = Stored(th[c].start + th[c].i)] IN
         IF th[c].i + 1 < th[c].want
         THEN SetTh(c, [th[c] EXCEPT !.pc = "ds_wait", !.i = @ + 1, !.done = @ + 1,
                                     !.out = out])
         ELSE Return(c, out, "dequeue_many_span", th[c].n, FALSE, th[c].done + 1)
    /\ UNCHANGED <<consts, head_, tail_, produced>>

\* compare_exchange_weak may fail although the counter holds the expected value
CasWeakSpurious(t) ==
    \/ /\ th[t].pc = "te_cas"
       /\ tail_ = th[t].pos
       /\ SetTh(t, [th[t] EXCEPT !.pc = "te_seq"])
       /\ UNCHANGED <<consts, slots_, head_, tail_, produced, consumed>>
    \/ /\ th[t].pc = "td_cas"
       /\ head_ = th[t].pos
       /\ SetTh(t, [th[t] EXCEPT !.pc = "td_seq"])
       /\ UNCHANGED <<consts, slots_, head_, tail_, produced, consumed>>
    \/ /\ th[t].pc = "dm_cas"
       /\ head_ = th[t].start
       /\ SetTh(t, [th[t] EXCEPT !.pc = "dm_head"])
       /\ UNCHANGED <<consts, slots_, head_, tail_, produced, consumed>>

(* ------------------------- RingSPSC::try_enqueue ----------------------- *)
(* The T&& overload (lines 48-56) has the same steps.                      *)

\* call, and t = tail_.load(RELAXED); pos holds t
SpscEnqueueBegin(p) ==
    /\ variant = "SPSC"
    /\ p = SpscProducer
    /\ th[p].pc = "idle"
    /\ MaxItems - tail_ >= 1
    /\ SetTh(p, [th[p] EXCEPT !.pc = "se_seq", !.pos = tail_, !.data = Buffer(p, 1)])
    /\ UNCHANGED <<consts, slots_, head_, tail_, produced, consumed>>

\* if (s.seq.load(ACQUIRE) != t) return false
SpscEnqueueLoadSeq(p) ==
    /\ th[p].pc = "se_seq"
    /\ IF Seq_(th[p].pos) # ProducerExpected(th[p].pos)
       THEN Return(p, th[p].out, "try_enqueue", 0, FALSE, 0)
       ELSE SetTh(p, [th[p] EXCEPT !.pc = "se_pub"])
    /\ UNCHANGED <<consts, slots_, head_, tail_, produced, consumed>>

\* construct_in_slot(s, v); s.seq.store(t + 1, RELEASE)
SpscEnqueuePublish(p) ==
    /\ th[p].pc = "se_pub"
    /\ Publish(th[p].pos, Elem(th[p].data, 0))
    /\ produced' = [produced EXCEPT ![p] = Append(@, <<th[p].pos, Elem(th[p].data, 0)>>)]
    /\ SetTh(p, [th[p] EXCEPT !.pc = "se_tail"])
    /\ UNCHANGED <<consts, head_, tail_, consumed>>

\* tail_.store(t + 1, RELAXED); return true
SpscEnqueueStoreTail(p) ==
    /\ th[p].pc = "se_tail"
    /\ tail_' = th[p].pos + 1
    /\ Return(p, th[p].out, "try_enqueue", 0, TRUE, 0)
    /\ UNCHANGED <<consts, slots_, head_, produced, consumed>>

(* ------------------------- RingSPSC::try_dequeue ----------------------- *)

\* call, and h = head_.load(RELAXED); pos holds h
SpscDequeueBegin(c) ==
    /\ variant = "SPSC"
    /\ c = SpscConsumer
    /\ th[c].pc = "idle"
    /\ SetTh(c, [th[c] EXCEPT !.pc = "sd_seq", !.pos = head_])
    /\ UNCHANGED <<consts, slots_, head_, tail_, produced, consumed>>

\* if (s.seq.load(ACQUIRE) != h + 1) return false
SpscDequeueLoadSeq(c) ==
    /\ th[c].pc = "sd_seq"
    /\ IF Seq_(th[c].pos) # ConsumerExpected(th[c].pos)
       THEN Return(c, th[c].out, "try_dequeue", 0, FALSE, 0)
       ELSE SetTh(c, [th[c] EXCEPT !.pc = "sd_pub"])
    /\ UNCHANGED <<consts, slots_, head_, tail_, produced, consumed>>

\* move_out_and_destroy(s, out); s.seq.store(h + capacity_, RELEASE)
SpscDequeueFree(c) ==
    /\ th[c].pc = "sd_pub"
    /\ Free(th[c].pos)
    /\ consumed' = [consumed EXCEPT ![c] = Append(@, <<th[c].pos, Stored(th[c].pos)>>)]
    /\ SetTh(c, [th[c] EXCEPT !.pc = "sd_head", !.out[1] = Stored(th[c].pos)])
    /\ UNCHANGED <<consts, head_, tail_, produced>>

\* head_.store(h + 1, RELAXED); return true
\* mutant: try_dequeue publishes its counter into tail_
SpscDequeueStoreHeadIntoTail(c) ==
    /\ th[c].pc = "sd_head"
    /\ tail_' = th[c].pos + 1
    /\ Return(c, th[c].out, "try_dequeue", 0, TRUE, 0)
    /\ UNCHANGED <<consts, slots_, head_, produced, consumed>>

SpscDequeueStoreHead(c) ==
    /\ th[c].pc = "sd_head"
    /\ head_' = th[c].pos + 1
    /\ Return(c, th[c].out, "try_dequeue", 0, TRUE, 0)
    /\ UNCHANGED <<consts, slots_, tail_, produced, consumed>>

(* ------------------------ RingSPSC::enqueue_until ---------------------- *)
(* do { if (try_enqueue(v)) return true; yield(); }                        *)
(* while (Clock::now() < deadline); return false;                          *)

\* call, and the first attempt's t = tail_.load(RELAXED)
EnqueueUntilBegin(p) ==
    /\ variant = "SPSC"
    /\ p = SpscProducer
    /\ th[p].pc = "idle"
    /\ MaxItems - tail_ >= 1
    /\ SetTh(p, [th[p] EXCEPT !.pc = "eu_seq", !.pos = tail_, !.data = Buffer(p, 1)])
    /\ UNCHANGED <<consts, slots_, head_, tail_, produced, consumed>>

\* try_enqueue: if (s.seq.load(ACQUIRE) != t) return false; then yield()
EnqueueUntilLoadSeq(p) ==
    /\ th[p].pc = "eu_seq"
    /\ IF Seq_(th[p].pos) # ProducerExpected(th[p].pos)
       THEN SetTh(p, [th[p] EXCEPT !.pc = "eu_clock"])
       ELSE SetTh(p, [th[p] EXCEPT !.pc = "eu_pub"])
    /\ UNCHANGED <<consts, slots_, head_, tail_, produced, consumed>>

\* try_enqueue: construct_in_slot(s, v); s.seq.store(t + 1, RELEASE)
EnqueueUntilPublish(p) ==
    /\ th[p].pc = "eu_pub"
    /\ Publish(th[p].pos, Elem(th[p].data, 0))
    /\ produced' = [produced EXCEPT ![p] = Append(@, <<th[p].pos, Elem(th[p].data, 0)>>)]
    /\ SetTh(p, [th[p] EXCEPT !.pc = "eu_tail"])
    /\ UNCHANGED <<consts, head_, tail_, consumed>>

\* try_enqueue: tail_.store(t + 1, RELAXED); return true; the wrapper returns true
EnqueueUntilStoreTail(p) ==
    /\ th[p].pc = "eu_tail"
    /\ tail_' = th[p].pos + 1
    /\ Return(p, th[p].out, "enqueue_until", 0, TRUE, 0)
    /\ UNCHANGED <<consts, slots_, head_, produced, consumed>>

\* Clock::now() < deadline: the next attempt, t = tail_.load(RELAXED)
EnqueueUntilRetry(p) ==
    /\ th[p].pc = "eu_clock"
    /\ SetTh(p, [th[p] EXCEPT !.pc = "eu_seq", !.pos = tail_])
    /\ UNCHANGED <<consts, slots_, head_, tail_, produced, consumed>>

\* Clock::now() >= deadline: return false
EnqueueUntilTimeout(p) ==
    /\ th[p].pc = "eu_clock"
    /\ Return(p, th[p].out, "enqueue_until", 0, FALSE, 0)
    /\ UNCHANGED <<consts, slots_, head_, tail_, produced, consumed>>

(* ------------------------ RingSPSC::dequeue_until ---------------------- *)
(* do { if (try_dequeue(out)) return true; yield(); }                      *)
(* while (Clock::now() < deadline); return false;                          *)

\* mutant: a while loop, the clock is read before the first attempt
DequeueUntilBeginClockFirst(c) ==
    /\ variant = "SPSC"
    /\ c = SpscConsumer
    /\ th[c].pc = "idle"
    /\ SetTh(c, [th[c] EXCEPT !.pc = "du_clock", !.pos = head_])
    /\ UNCHANGED <<consts, slots_, head_, tail_, produced, consumed>>

\* call, and the first attempt's h = head_.load(RELAXED)
DequeueUntilBegin(c) ==
    /\ variant = "SPSC"
    /\ c = SpscConsumer
    /\ th[c].pc = "idle"
    /\ SetTh(c, [th[c] EXCEPT !.pc = "du_seq", !.pos = head_])
    /\ UNCHANGED <<consts, slots_, head_, tail_, produced, consumed>>

\* try_dequeue: if (s.seq.load(ACQUIRE) != h + 1) return false; then yield()
DequeueUntilLoadSeq(c) ==
    /\ th[c].pc = "du_seq"
    /\ IF Seq_(th[c].pos) # ConsumerExpected(th[c].pos)
       THEN SetTh(c, [th[c] EXCEPT !.pc = "du_clock"])
       ELSE SetTh(c, [th[c] EXCEPT !.pc = "du_pub"])
    /\ UNCHANGED <<consts, slots_, head_, tail_, produced, consumed>>

\* try_dequeue: move_out_and_destroy(s, out); s.seq.store(h + capacity_, RELEASE)
DequeueUntilFree(c) ==
    /\ th[c].pc = "du_pub"
    /\ Free(th[c].pos)
    /\ consumed' = [consumed EXCEPT ![c] = Append(@, <<th[c].pos, Stored(th[c].pos)>>)]
    /\ SetTh(c, [th[c] EXCEPT !.pc = "du_head", !.out[1] = Stored(th[c].pos)])
    /\ UNCHANGED <<consts, head_, tail_, produced>>

\* try_dequeue: head_.store(h + 1, RELAXED); return true; the wrapper returns true
DequeueUntilStoreHead(c) ==
    /\ th[c].pc = "du_head"
    /\ head_' = th[c].pos + 1
    /\ Return(c, th[c].out, "dequeue_until", 0, TRUE, 0)
    /\ UNCHANGED <<consts, slots_, tail_, produced, consumed>>

\* Clock::now() < deadline: the next attempt, h = head_.load(RELAXED)
DequeueUntilRetry(c) ==
    /\ th[c].pc = "du_clock"
    /\ SetTh(c, [th[c] EXCEPT !.pc = "du_seq", !.pos = head_])
    /\ UNCHANGED <<consts, slots_, head_, tail_, produced, consumed>>

\* Clock::now() >= deadline: return false
DequeueUntilTimeout(c) ==
    /\ th[c].pc = "du_clock"
    /\ Return(c, th[c].out, "dequeue_until", 0, FALSE, 0)
    /\ UNCHANGED <<consts, slots_, head_, tail_, produced, consumed>>

(* --------------------------- specifications ---------------------------- *)

\* a RingMPMC of capacity >= 2
Init == \E requested \in 2..MaxRequested : Constructed("MPMC", requested)

ProducerStep(p) ==
    \/ TryEnqueueBegin(p)
    \/ TryEnqueueLoadSeq(p)
    \/ TryEnqueueReload(p)
    \/ TryEnqueueCas(p)
    \/ TryEnqueuePublish(p)
    \/ \E n \in 0..MaxN : EnqueueManyBegin(p, n)
    \/ EnqueueManyWait(p)
    \/ EnqueueManyPublish(p)

ConsumerStep(c) ==
    \/ TryDequeueBegin(c)
    \/ TryDequeueLoadSeq(c)
    \/ TryDequeueReload(c)
    \/ TryDequeueCas(c)
    \/ TryDequeuePublish(c)
    \/ \E n \in 0..MaxN : DequeueManyBegin(c, n)
    \/ DequeueManyLoadHead(c)
    \/ DequeueManyScan(c)
    \/ DequeueManyCas(c)
    \/ DequeueManyFree(c)

SpanStep(c) ==
    \/ \E n \in 0..MaxN : DequeueManySpanBegin(c, n)
    \/ DequeueManySpanWait(c)
    \/ DequeueManySpanFree(c)

\* try_enqueue, try_dequeue and the pointer overloads of the batch operations
Next ==
    \/ \E p \in Producers : ProducerStep(p)
    \/ \E c \in Consumers : ConsumerStep(c)
    \/ \E t \in Threads : CasWeakSpurious(t)

Spec == Init /\ [][Next]_vars

\* every member function of RingMPMC
NextAll ==
    \/ Next
    \/ \E c \in Consumers : SpanStep(c)

SpecAll == Init /\ [][NextAll]_vars

\* a RingSPSC of capacity >= 2 with its one producer and its one consumer
InitSPSC == \E requested \in 2..MaxRequested : Constructed("SPSC", requested)

NextSPSC ==
    \/ SpscEnqueueBegin(SpscProducer)
    \/ SpscEnqueueLoadSeq(SpscProducer)
    \/ SpscEnqueuePublish(SpscProducer)
    \/ SpscEnqueueStoreTail(SpscProducer)
    \/ SpscDequeueBegin(SpscConsumer)
    \/ SpscDequeueLoadSeq(SpscConsumer)
    \/ SpscDequeueFree(SpscConsumer)
    \/ SpscDequeueStoreHead(SpscConsumer)

SpecSPSC == InitSPSC /\ [][NextSPSC]_vars

\* consumer c takes a step of try_dequeue or of dequeue_many(ptr, n) with n >= 1
DrainStep(c) ==
    \/ TryDequeueBegin(c)
    \/ TryDequeueLoadSeq(c)
    \/ TryDequeueReload(c)
    \/ TryDequeueCas(c)
    \/ TryDequeuePublish(c)
    \/ \E n \in 1..MaxN : DequeueManyBegin(c, n)
    \/ DequeueManyLoadHead(c)
    \/ DequeueManyScan(c)
    \/ DequeueManyCas(c)
    \/ DequeueManyFree(c)

\* producers and consumers whose compare_exchange_weak fails only on a changed counter
NextLive ==
    \/ \E p \in Producers : ProducerStep(p)
    \/ \E c \in Consumers : ConsumerStep(c)

\* every thread keeps running; the consumers keep draining
SpecLive ==
    /\ Init
    /\ [][NextLive]_vars
    /\ \A p \in Producers : WF_vars(ProducerStep(p))
    /\ \A c \in Consumers : WF_vars(DrainStep(c))

\* either ring, of any capacity the constructor produces
InitRings ==
    \E kind \in {"MPMC", "SPSC"} :
        \E requested \in 0..MaxRequestedRings : Constructed(kind, requested)

\* RingMPMC with two producers and one consumer, or RingSPSC
NextRings ==
    \/ \E p \in Producers : ProducerStep(p)
    \/ ConsumerStep(SpscConsumer)
    \/ SpanStep(SpscConsumer)
    \/ \E t \in Threads : CasWeakSpurious(t)
    \/ NextSPSC

SpecRings == InitRings /\ [][NextRings]_vars

\* no thread other than t is inside a call
Alone(t) == \A u \in Threads \ {t} : th[u].pc = "idle"

\* either ring, constructed as the smoke tests do, of capacity 1, 2 or 4
InitSeq ==
    \E kind \in {"MPMC", "SPSC"} :
        \E requested \in 0..MaxRequestedSeq : Constructed(kind, requested)

\* try_enqueue and try_dequeue calls that do not overlap: a thread steps only
\* while no other thread is inside a call
NextSeq ==
    \/ \E p \in Producers :
         /\ Alone(p)
         /\ \/ TryEnqueueBegin(p)
            \/ TryEnqueueLoadSeq(p)
            \/ TryEnqueueCas(p)
            \/ TryEnqueuePublish(p)
    \/ \E c \in Consumers :
         /\ Alone(c)
         /\ \/ TryDequeueBegin(c)
            \/ TryDequeueLoadSeq(c)
            \/ TryDequeueReload(c)
            \/ TryDequeueCas(c)
            \/ TryDequeuePublish(c)
    \/ /\ Alone(SpscProducer)
       /\ \/ SpscEnqueueBegin(SpscProducer)
          \/ SpscEnqueueLoadSeq(SpscProducer)
          \/ SpscEnqueuePublish(SpscProducer)
          \/ SpscEnqueueStoreTail(SpscProducer)
    \/ /\ Alone(SpscConsumer)
       /\ \/ SpscDequeueBegin(SpscConsumer)
          \/ SpscDequeueLoadSeq(SpscConsumer)
          \/ SpscDequeueFree(SpscConsumer)
          \/ SpscDequeueStoreHead(SpscConsumer)

SpecSeq == InitSeq /\ [][NextSeq]_vars

\* a RingMPMC of capacity 2 or 4 for the batch run
InitDrain == \E requested \in 2..MaxRequestedRings : Constructed("MPMC", requested)

\* the producer's successive enqueue_many(ptr, b) calls, the last one as short as
\* the items that remain
BatchProducerStep(p) ==
    \/ \E b \in 1..MaxN : EnqueueManyBegin(p, b)
    \/ EnqueueManyWait(p)
    \/ EnqueueManyPublish(p)

\* the consumer's repeated dequeue_many(ptr, b) calls; with one consumer the CAS
\* on head meets no other writer
BatchConsumerStep(c) ==
    \/ \E b \in 1..MaxN : DequeueManyBegin(c, b)
    \/ DequeueManyScan(c)
    \/ DequeueManyCas(c)
    \/ DequeueManyFree(c)

\* one producer and one consumer exchanging batches
NextDrain ==
    \/ BatchProducerStep(SpscProducer)
    \/ BatchConsumerStep(SpscConsumer)

\* both threads keep running
SpecDrain ==
    /\ InitDrain
    /\ [][NextDrain]_vars
    /\ WF_vars(BatchProducerStep(SpscProducer))
    /\ WF_vars(BatchConsumerStep(SpscConsumer))

\* the producer of a RingSPSC in try_enqueue or enqueue_until
UntilProducerStep(p) ==
    \/ SpscEnqueueBegin(p)
    \/ SpscEnqueueLoadSeq(p)
    \/ SpscEnqueuePublish(p)
    \/ SpscEnqueueStoreTail(p)
    \/ EnqueueUntilBegin(p)
    \/ EnqueueUntilLoadSeq(p)
    \/ EnqueueUntilPublish(p)
    \/ EnqueueUntilStoreTail(p)
    \/ EnqueueUntilRetry(p)
    \/ EnqueueUntilTimeout(p)

\* the consumer of a RingSPSC in try_dequeue or dequeue_until
UntilConsumerStep(c) ==
    \/ SpscDequeueBegin(c)
    \/ SpscDequeueLoadSeq(c)
    \/ SpscDequeueFree(c)
    \/ SpscDequeueStoreHead(c)
    \/ DequeueUntilBegin(c)
    \/ DequeueUntilLoadSeq(c)
    \/ DequeueUntilFree(c)
    \/ DequeueUntilStoreHead(c)
    \/ DequeueUntilRetry(c)
    \/ DequeueUntilTimeout(c)

NextUntil ==
    \/ UntilProducerStep(SpscProducer)
    \/ UntilConsumerStep(SpscConsumer)

\* both threads keep running, and the clock of a waiting call reaches its deadline
SpecUntil ==
    /\ InitSPSC
    /\ [][NextUntil]_vars
    /\ WF_vars(UntilProducerStep(SpscProducer))
    /\ WF_vars(UntilConsumerStep(SpscConsumer))
    /\ SF_vars(EnqueueUntilTimeout(SpscProducer))
    /\ SF_vars(DequeueUntilTimeout(SpscConsumer))

\* every operation of either ring: RingMPMC with two producers and one consumer,
\* or RingSPSC with try_enqueue, try_dequeue, enqueue_until and dequeue_until
NextOps ==
    \/ \E p \in Producers : ProducerStep(p)
    \/ ConsumerStep(SpscConsumer)
    \/ SpanStep(SpscConsumer)
    \/ \E t \in Threads : CasWeakSpurious(t)
    \/ NextUntil

SpecOps == InitRings /\ [][NextOps]_vars

\* a producer that only ever calls try_enqueue
SingleProducerStep(p) ==
    \/ TryEnqueueBegin(p)
    \/ TryEnqueueLoadSeq(p)
    \/ TryEnqueueReload(p)
    \/ TryEnqueueCas(p)
    \/ TryEnqueuePublish(p)

\* RingMPMC used through try_enqueue, try_dequeue and dequeue_many(ptr, n) only
NextSingle ==
    \/ \E p \in Producers : SingleProducerStep(p)
    \/ \E c \in Consumers : ConsumerStep(c)
    \/ \E t \in Threads : CasWeakSpurious(t)

SpecSingle == Init /\ [][NextSingle]_vars

\* logical index i holds an item whose enqueue call has returned and which no
\* consumer of the pointer overloads has claimed
CompletedUnclaimed(i) ==
    /\ i >= head_
    /\ \E p \in Producers :
         /\ \E k \in 1..Len(produced[p]) : produced[p][k][1] = i
         /\ th[p].pc \in {"em_wait", "em_pub"} => i < th[p].start

\* a lone consumer that starts try_dequeue or dequeue_many(ptr, n >= 1) only after
\* some producer's call has returned Success for an item that is still unclaimed
AwaitedConsumerStep(c) ==
    \/ /\ \E i \in 0..MaxItems : CompletedUnclaimed(i)
       /\ \/ TryDequeueBegin(c)
          \/ \E n \in 1..MaxN : DequeueManyBegin(c, n)
    \/ TryDequeueLoadSeq(c)
    \/ TryDequeueCas(c)
    \/ TryDequeuePublish(c)
    \/ DequeueManyLoadHead(c)
    \/ DequeueManyScan(c)
    \/ DequeueManyCas(c)
    \/ DequeueManyFree(c)

\* RingMPMC with two producers and the lone consumer
NextAwaited ==
    \/ \E p \in Producers : ProducerStep(p)
    \/ AwaitedConsumerStep(SpscConsumer)
    \/ \E t \in Threads : CasWeakSpurious(t)

SpecAwaited == Init /\ [][NextAwaited]_vars

\* either ring constructed from every requested capacity 0..MaxRequestedPow2
InitPow2 ==
    \E kind \in {"MPMC", "SPSC"} :
        \E requested \in 0..MaxRequestedPow2 : Constructed(kind, requested)

\* the rings in use by the RingSPSC calls (a RingMPMC is only constructed)
SpecPow2 == InitPow2 /\ [][NextSPSC]_vars

(* ------------------------------- history ------------------------------- *)

Range(f) == {f[k] : k \in DOMAIN f}

\* <<logical index, value>> of every element a producer constructed in a slot
AllProduced == UNION {Range(produced[p]) : p \in Producers}

\* <<logical index, value>> of every element a consumer moved out of a slot
AllConsumed == UNION {Range(consumed[c]) : c \in Consumers}

RECURSIVE SumOver(_, _)
SumOver(S, f) ==
    IF S = {} THEN 0
    ELSE LET x == CHOOSE y \in S : TRUE IN f[x] + SumOver(S \ {x}, f)

NumProduced == SumOver(Producers, [p \in Producers |-> Len(produced[p])])

NumConsumed == SumOver(Consumers, [c \in Consumers |-> Len(consumed[c])])

\* every call has returned and the consumers have drained the ring
Quiescent == (\A t \in Threads : th[t].pc = "idle") /\ head_ = tail_

(* --------------- bench_throughput.cpp: the producers' flush ------------- *)

\* items pushed into the producers' buffers so far, all producers together
TotalPushed == SumOver(Producers, [p \in Producers |-> flush[p].pushed])

\* buf.push_back(base + i) n times, then placed = 0 and flush(true) is entered
FlushBegin(p, n) ==
    /\ variant = "MPMC"
    /\ th[p].pc = "idle"
    /\ flush[p].buf = <<>>
    /\ TotalPushed + n <= MaxItems
    /\ flush' = [flush EXCEPT ![p] =
                   [buf |-> [j \in 1..n |-> Item(p, flush[p].pushed + j)],
                    placed |-> 0,
                    pushed |-> flush[p].pushed + n]]
    /\ ret' = NoRet
    /\ UNCHANGED <<consts, slots_, head_, tail_, th, produced, consumed, harness>>

\* while (placed < buf.size()): want = buf.size() - placed;
\* q.enqueue_many(buf.data() + placed, want) up to its tail_.fetch_add
FlushCall(p) ==
    /\ th[p].pc = "idle"
    /\ flush[p].placed < Len(flush[p].buf)
    /\ LET n == Len(flush[p].buf) - flush[p].placed IN
         /\ tail_' = tail_ + Clamp(n)
         /\ SetTh(p, [th[p] EXCEPT !.pc = "em_wait", !.n = n, !.want = Clamp(n),
                                   !.start = tail_, !.i = 0, !.done = 0,
                                   !.data = [j \in 1..n |->
                                               flush[p].buf[flush[p].placed + j]]])
    /\ UNCHANGED <<consts, slots_, head_, produced, consumed>>

\* enqueue_many's store of data[i]; after the last one it returns done and the
\* caller executes placed += did
FlushPublish(p) ==
    /\ th[p].pc = "em_pub"
    /\ Publish(th[p].start + th[p].i, Elem(th[p].data, th[p].i))
    /\ produced' = [produced EXCEPT
                      ![p] = Append(@, <<th[p].start + th[p].i, Elem(th[p].data, th[p].i)>>)]
    /\ IF th[p].i + 1 < th[p].want
       THEN SetTh(p, [th[p] EXCEPT !.pc = "em_wait", !.i = @ + 1, !.done = @ + 1])
       ELSE /\ th' = [th EXCEPT ![p] = Idle(th[p].out)]
            /\ ret' = [thread |-> p, op |-> "enqueue_many", n |-> th[p].n, ok |-> FALSE,
                       count |-> th[p].done + 1]
            /\ flush' = [flush EXCEPT ![p].placed = @ + th[p].done + 1]
            /\ harness' = harness
    /\ UNCHANGED <<consts, head_, tail_, consumed>>

\* the while loop of flush has been left and flush has not cleared buf yet
FlushLoopExit(p) ==
    /\ th[p].pc = "idle"
    /\ flush[p].buf # <<>>
    /\ ~(flush[p].placed < Len(flush[p].buf))

\* if (force) { buf.clear(); placed = 0; }
FlushEnd(p) ==
    /\ FlushLoopExit(p)
    /\ flush' = [flush EXCEPT ![p].buf = <<>>, ![p].placed = 0]
    /\ ret' = NoRet
    /\ UNCHANGED <<consts, slots_, head_, tail_, th, produced, consumed, harness>>

\* a producer thread of the benchmark
FlushProducerStep(p) ==
    \/ \E n \in 1..MaxFlush : FlushBegin(p, n)
    \/ FlushCall(p)
    \/ EnqueueManyWait(p)
    \/ FlushPublish(p)
    \/ FlushEnd(p)

\* the benchmark's producers flushing their buffers, and a consumer
NextFlush ==
    \/ \E p \in Producers : FlushProducerStep(p)
    \/ BatchConsumerStep(SpscConsumer)

\* every thread keeps running
SpecFlush ==
    /\ InitDrain
    /\ [][NextFlush]_vars
    /\ \A p \in Producers : WF_vars(FlushProducerStep(p))
    /\ WF_vars(BatchConsumerStep(SpscConsumer))

(* ---------- RingSPSC deadline wrappers called with a passed deadline ---- *)

\* the producer: every Clock::now() < deadline of its enqueue_until calls is false
ExpiredProducerStep(p) ==
    \/ SpscEnqueueBegin(p)
    \/ SpscEnqueueLoadSeq(p)
    \/ SpscEnqueuePublish(p)
    \/ SpscEnqueueStoreTail(p)
    \/ EnqueueUntilBegin(p)
    \/ EnqueueUntilLoadSeq(p)
    \/ EnqueueUntilPublish(p)
    \/ EnqueueUntilStoreTail(p)
    \/ EnqueueUntilTimeout(p)

\* the consumer: every Clock::now() < deadline of its dequeue_until calls is false
ExpiredConsumerStep(c) ==
    \/ SpscDequeueBegin(c)
    \/ SpscDequeueLoadSeq(c)
    \/ SpscDequeueFree(c)
    \/ SpscDequeueStoreHead(c)
    \/ DequeueUntilBegin(c)
    \/ DequeueUntilLoadSeq(c)
    \/ DequeueUntilFree(c)
    \/ DequeueUntilStoreHead(c)
    \/ DequeueUntilTimeout(c)

NextExpired ==
    \/ ExpiredProducerStep(SpscProducer)
    \/ ExpiredConsumerStep(SpscConsumer)

SpecExpired == InitSPSC /\ [][NextExpired]_vars

(* ------------------ the exactly-once test (part_002) -------------------- *)

\* for (i < items_per_producer) buf.push_back(base + i) until buf holds
\* HarnessBuf ids or the last id was pushed; then placed = 0
HarnessPush(p) ==
    /\ variant = "MPMC"
    /\ th[p].pc = "idle"
    /\ flush[p].buf = <<>>
    /\ flush[p].pushed < ItemsPerProducer
    /\ LET left == ItemsPerProducer - flush[p].pushed
           n == IF left < HarnessBuf THEN left ELSE HarnessBuf
       IN  flush' = [flush EXCEPT ![p] =
                       [buf |-> [j \in 1..n |-> Item(p, flush[p].pushed + j)],
                        placed |-> 0,
                        pushed |-> flush[p].pushed + n]]
    /\ ret' = NoRet
    /\ UNCHANGED <<consts, slots_, head_, tail_, th, produced, consumed, harness>>

\* a producer thread of the test: fill buf, place it with enqueue_many, clear it
HarnessProducerStep(p) ==
    \/ HarnessPush(p)
    \/ FlushCall(p)
    \/ EnqueueManyWait(p)
    \/ FlushPublish(p)
    \/ FlushEnd(p)

\* the producer's lambda has returned
HarnessProducerDone(p) ==
    /\ th[p].pc = "idle"
    /\ flush[p].buf = <<>>
    /\ flush[p].pushed = ItemsPerProducer

\* consumer c moves to position at of its loop, with got and i
HarnessAt(c, at, got, i) ==
    harness' = [harness EXCEPT !.cons[c] = [at |-> at, got |-> got, i |-> i]]

\* got = q.dequeue_many(out.data(), batch): the call
HarnessCall(c) ==
    /\ harness.cons[c].at = "call"
    /\ DequeueManyBegin(c, HarnessBatch)

\* dequeue_many's scan; when it returns 0 the consumer has got == 0
HarnessScan(c) ==
    /\ th[c].pc = "dm_scan"
    /\ IF /\ Seq_(th[c].start + th[c].ready) # ConsumerExpected(th[c].start + th[c].ready)
          /\ th[c].ready = 0
       THEN /\ th' = [th EXCEPT ![c] = Idle(th[c].out)]
            /\ ret' = [thread |-> c, op |-> "dequeue_many", n |-> th[c].n, ok |-> FALSE,
                       count |-> 0]
            /\ HarnessAt(c, "empty", 0, 0)
            /\ UNCHANGED <<consts, slots_, head_, tail_, produced, consumed, flush>>
       ELSE DequeueManyScan(c)

\* dequeue_many's moves out of the claimed slots; when it returns ready the
\* consumer has got == ready and starts marking at i = 0
HarnessFree(c) ==
    /\ th[c].pc = "dm_pub"
    /\ IF th[c].i + 1 < th[c].ready
       THEN DequeueManyFree(c)
       ELSE /\ Free(th[c].start + th[c].i)
            /\ consumed' = [consumed EXCEPT
                              ![c] = Append(@, <<th[c].start + th[c].i,
                                                 Stored(th[c].start + th[c].i)>>)]
            /\ th' = [th EXCEPT ![c] =
                        Idle([th[c].out EXCEPT
                                ![th[c].i + 1] = Stored(th[c].start + th[c].i)])]
            /\ ret' = [thread |-> c, op |-> "dequeue_many", n |-> th[c].n, ok |-> FALSE,
                       count |-> th[c].ready]
            /\ HarnessAt(c, "mark", th[c].ready, 0)
            /\ UNCHANGED <<consts, head_, tail_, produced, flush>>

\* if (got == 0) { if (consumed.load() >= TOTAL) break; yield(); continue; }
HarnessEmpty(c) ==
    /\ harness.cons[c].at = "empty"
    /\ HarnessAt(c, IF harness.consumed >= TOTAL THEN "done" ELSE "call", 0, 0)
    /\ ret' = NoRet
    /\ UNCHANGED <<consts, slots_, head_, tail_, th, produced, consumed, flush>>

\* id = out[i]; abort if id >= TOTAL; prev = visited[id].exchange(1); abort if
\* prev != 0; ++i
HarnessMark(c) ==
    /\ harness.cons[c].at = "mark"
    /\ LET i == harness.cons[c].i
           got == harness.cons[c].got
           id == th[c].out[i + 1]
       IN  IF id \notin HarnessIds
           THEN HarnessAt(c, "abort", got, i)
           ELSE harness' = [harness EXCEPT
                              !.visited[id] = 1,
                              !.cons[c] = IF harness.visited[id] # 0
                                          THEN [at |-> "abort", got |-> got, i |-> i]
                                          ELSE IF i + 1 < got
                                               THEN [at |-> "mark", got |-> got, i |-> i + 1]
                                               ELSE [at |-> "add", got |-> got, i |-> i + 1]]
    /\ ret' = NoRet
    /\ UNCHANGED <<consts, slots_, head_, tail_, th, produced, consumed, flush>>

\* prev = consumed.fetch_add(got) + got; if (prev >= TOTAL) break
HarnessAdd(c) ==
    /\ harness.cons[c].at = "add"
    /\ harness' = [harness EXCEPT
                     !.consumed = @ + harness.cons[c].got,
                     !.cons[c] = [at |-> IF harness.consumed + harness.cons[c].got >= TOTAL
                                         THEN "done" ELSE "call",
                                  got |-> 0, i |-> 0]]
    /\ ret' = NoRet
    /\ UNCHANGED <<consts, slots_, head_, tail_, th, produced, consumed, flush>>

\* a consumer thread of the test
HarnessConsumerStep(c) ==
    \/ HarnessCall(c)
    \/ DequeueManyLoadHead(c)
    \/ HarnessScan(c)
    \/ DequeueManyCas(c)
    \/ HarnessFree(c)
    \/ HarnessEmpty(c)
    \/ HarnessMark(c)
    \/ HarnessAdd(c)

\* every thread of the test has been joined
HarnessJoined ==
    /\ \A p \in Producers : HarnessProducerDone(p)
    /\ \A c \in Consumers : th[c].pc = "idle" /\ harness.cons[c].at = "done"

NextHarness ==
    \/ \E p \in Producers : HarnessProducerStep(p)
    \/ \E c \in Consumers : HarnessConsumerStep(c)

\* every thread keeps running until it is joined
SpecHarness ==
    /\ Init
    /\ [][NextHarness]_vars
    /\ \A p \in Producers : WF_vars(HarnessProducerStep(p))
    /\ \A c \in Consumers : WF_vars(HarnessConsumerStep(c))

(* ------------------------ utils.hpp: mpmc_smoke ------------------------- *)

\* the number of items mpmc_smoke moves through the ring
SmokeItems == IF MaxItems < MaxSmoke THEN MaxItems ELSE MaxSmoke

\* prod: for (i < N) { while (!q.try_enqueue(i)) yield(); produced.fetch_add(1); }
\* with one producer tail has no other writer, so diff > 0 does not occur
SmokeProducerStep(p) ==
    \/ Len(produced[p]) < SmokeItems /\ TryEnqueueBegin(p)
    \/ TryEnqueueLoadSeq(p)
    \/ TryEnqueueCas(p)
    \/ TryEnqueuePublish(p)

\* cons: for (i < N) { while (!q.try_dequeue(v)) yield(); consumed.fetch_add(1); }
\* with one consumer head has no other writer, so diff > 0 does not occur
SmokeConsumerStep(c) ==
    \/ Len(consumed[c]) < SmokeItems /\ TryDequeueBegin(c)
    \/ TryDequeueLoadSeq(c)
    \/ TryDequeueCas(c)
    \/ TryDequeuePublish(c)

\* both threads have left their for loops
SmokeDone ==
    /\ th[SpscProducer].pc = "idle" /\ Len(produced[SpscProducer]) = SmokeItems
    /\ th[SpscConsumer].pc = "idle" /\ Len(consumed[SpscConsumer]) = SmokeItems

NextSmoke ==
    \/ SmokeProducerStep(SpscProducer)
    \/ SmokeConsumerStep(SpscConsumer)

\* prod and cons keep running until joined
SpecSmoke ==
    /\ InitDrain
    /\ [][NextSmoke]_vars
    /\ WF_vars(SmokeProducerStep(SpscProducer))
    /\ WF_vars(SmokeConsumerStep(SpscConsumer))


(* -------------------------------- claims ------------------------------- *)

\* C1: exactly-once delivery in RingMPMC (capacity >= 2) under try_enqueue,
\* enqueue_many(ptr, n), try_dequeue and dequeue_many(ptr, n): no value is returned
\* by two dequeues, every returned value was enqueued, and once every call has
\* returned and the ring is drained the dequeued values are exactly the enqueued ones.
C1_ExactlyOnce ==
    /\ \A c \in Consumers : \A d \in Consumers :
         \A i \in DOMAIN consumed[c] : \A j \in DOMAIN consumed[d] :
            consumed[c][i][2] = consumed[d][j][2] => (c = d /\ i = j)
    /\ \A e \in AllConsumed : \E q \in AllProduced : q[2] = e[2]
    /\ Quiescent =>
         /\ {e[2] : e \in AllConsumed} = {q[2] : q \in AllProduced}
         /\ NumConsumed = NumProduced

\* C1 witness: a drained ring after a full run past the wrap-around in which both
\* producers enqueued and both consumers dequeued
C1_Witness ==
    /\ Quiescent
    /\ NumConsumed = MaxItems
    /\ \A p \in Producers : produced[p] # <<>>
    /\ \A c \in Consumers : consumed[c] # <<>>

\* logical indices reserved by enqueue_many calls (fetch_add on tail_) and not yet published
UnpublishedReserved ==
    SumOver(Producers, [p \in Producers |->
        IF th[p].pc \in {"em_wait", "em_pub"} THEN th[p].want - th[p].i ELSE 0])

\* logical indices reserved by span dequeue_many calls (fetch_add on head_) and not yet consumed
UnconsumedReserved ==
    SumOver(Consumers, [c \in Consumers |->
        IF th[c].pc \in {"ds_wait", "ds_pub"} THEN th[c].want - th[c].i ELSE 0])

C3_SpscCountersWithinCapacity ==
    variant = "SPSC" => (0 <= tail_ - head_ /\ tail_ - head_ <= capacity_)

\* C4: ticket shape, either ring: the seq of the physical slot at position k is
\* k + g * capacity or k + 1 + g * capacity for some g >= 0.
C4_TicketShape ==
    \A k \in DOMAIN slots_ :
        /\ slots_[k].seq >= k
        /\ \/ (slots_[k].seq - k) % capacity_ = 0
           \/ (slots_[k].seq - k - 1) % capacity_ = 0

\* C4 witness: on a ring of capacity 4 a slot is Written in its second generation
C4_Witness ==
    /\ capacity_ = 4
    /\ \E k \in DOMAIN slots_ : slots_[k].seq = k + 1 + capacity_

\* logical indices a consumer has claimed and not yet freed
ClaimedByConsumer(c) ==
    IF th[c].pc = "td_pub" THEN {th[c].pos}
    ELSE IF th[c].pc = "dm_pub" THEN (th[c].start + th[c].i)..(th[c].start + th[c].ready - 1)
    ELSE {}

\* C5: per-producer FIFO in RingMPMC: the items of one producer get strictly
\* increasing logical indices in program order; a consumer holds or has consumed an
\* index only when head is beyond it; and the items of one producer that one
\* consumer returns come out in the order they were enqueued.
C5_PerProducerFifo ==
    /\ \A p \in Producers : \A i \in DOMAIN produced[p] : \A j \in DOMAIN produced[p] :
         i < j => /\ produced[p][i][1] < produced[p][j][1]
                  /\ produced[p][i][2] = Item(p, i)
    /\ \A c \in Consumers :
         /\ \A k \in ClaimedByConsumer(c) : k < head_
         /\ \A e \in Range(consumed[c]) : e[1] < head_
    /\ \A c \in Consumers : \A i \in DOMAIN consumed[c] : \A j \in DOMAIN consumed[c] :
         \A p \in Producers : \A a \in 1..MaxItems : \A b \in 1..MaxItems :
            (i < j /\ consumed[c][i][2] = Item(p, a) /\ consumed[c][j][2] = Item(p, b))
               => a < b

\* C5 witness: one consumer returned three items of which the first and the last,
\* one on each side of the wrap-around, come from the same producer's batches
C5_Witness ==
    \E c \in Consumers : \E p \in Producers :
        /\ Len(consumed[c]) = 3
        /\ consumed[c][1][2] = Item(p, 1)
        /\ consumed[c][3][2] = Item(p, 2)
        /\ consumed[c][3][1] >= capacity_

C7_DequeueManyNeverWaits ==
    \A c \in Consumers :
        th[c].pc = "ds_wait" =>
            Seq_(th[c].start + th[c].i) = ConsumerExpected(th[c].start + th[c].i)

Min(a, b) == IF a < b THEN a ELSE b

\* C8: a call enqueue_many(data, n) with n > 0 advances tail by exactly
\* min(n, capacity) from its start index; when it returns, its result is
\* min(n, capacity) and the call has published data[0..min(n, capacity)) in order
\* at the logical indices start, start + 1, ...; with n = 0 it returns 0 and
\* changes neither the counters nor any slot.
C8_EnqueueManyResult ==
    [][\A p \in Producers :
         /\ (th[p].pc = "idle" /\ th'[p].pc = "em_wait") =>
              /\ tail_' = tail_ + Min(th'[p].n, capacity_)
              /\ th'[p].start = tail_
         /\ (th[p].pc = "em_pub" /\ th'[p].pc = "idle") =>
              LET m == Min(th[p].n, capacity_)
                  h == produced'[p]
              IN  /\ ret'.thread = p /\ ret'.op = "enqueue_many"
                  /\ ret'.count = m
                  /\ tail_' = tail_
                  /\ Len(h) >= m
                  /\ \A k \in 0..(m - 1) :
                       h[Len(h) - m + 1 + k] = <<th[p].start + k, th[p].data[k + 1]>>
         /\ (ret'.thread = p /\ ret'.op = "enqueue_many" /\ ret'.n = 0) =>
              /\ ret'.count = 0
              /\ UNCHANGED <<slots_, head_, tail_, produced, consumed>>
      ]_vars

\* C8 witness: enqueue_many with n beyond the capacity has returned the capacity
C8_Witness ==
    /\ ret.op = "enqueue_many"
    /\ ret.n > capacity_
    /\ ret.count = capacity_
    /\ Len(produced[ret.thread]) >= capacity_

C10_TryDequeueLeavesRetryLoop ==
    \A c \in Consumers :
        ~ /\ th[c].pc = "td_seq"
          /\ th[c].pos = head_
          /\ Seq_(head_) > ConsumerExpected(head_)
          /\ \A t \in Threads \ {c} : th[t].pc = "idle"

\* thread t is inside a call and has not claimed a logical index in it
BeforeClaim(pc) ==
    pc \in {"te_seq", "te_reload", "te_cas", "td_seq", "td_reload", "td_cas",
            "dm_scan", "dm_head", "dm_cas", "se_seq", "sd_seq"}

\* thread t holds a logical index it claimed in its call
AfterClaim(pc) == pc \in {"te_pub", "td_pub", "dm_pub", "se_pub", "se_tail", "sd_pub", "sd_head"}

\* C11: no effect on failure, either ring: a try_enqueue that returns Full, a
\* try_dequeue that returns Empty and a dequeue_many(ptr, n) that returns 0 return
\* from a call none of whose steps changed head, tail, a slot's seq or storage or
\* the caller's out argument, and the value of a failed try_enqueue is intact.
C11_NoEffectOnFailure ==
    [][\A t \in Threads :
         LET acts == th'[t] # th[t]
             fails == /\ acts /\ ret'.thread = t
                      /\ \/ ret'.op \in {"try_enqueue", "try_dequeue"} /\ ~ret'.ok
                         \/ ret'.op = "dequeue_many" /\ ret'.count = 0
             inside == \/ BeforeClaim(th[t].pc)
                       \/ th[t].pc = "idle" /\ BeforeClaim(th'[t].pc)
         IN  /\ fails =>
                  /\ BeforeClaim(th[t].pc) \/ th[t].pc = "idle"
                  /\ ret'.op = "try_enqueue" => th[t].data = Buffer(t, 1)
             /\ (acts /\ (inside \/ fails) /\ ~AfterClaim(th'[t].pc)) =>
                  /\ UNCHANGED <<slots_, head_, tail_, produced, consumed>>
                  /\ th'[t].out = th[t].out
                  /\ (BeforeClaim(th[t].pc) /\ BeforeClaim(th'[t].pc))
                        => th'[t].data = th[t].data
             /\ (acts /\ AfterClaim(th[t].pc) /\ ret'.thread = t) =>
                  (ret'.ok \/ ret'.count > 0)
      ]_vars

\* C11 witness: a try_dequeue has returned Empty to a caller whose out still holds
\* the value of an earlier successful dequeue
C11_Witness ==
    /\ ret.op = "try_dequeue"
    /\ ~ret.ok
    /\ ret.thread \in Consumers
    /\ th[ret.thread].out[1] # NoVal

\* successful enqueues before the call that has just returned
EnqueuedBefore ==
    IF ret.op = "try_enqueue" /\ ret.ok THEN NumProduced - 1 ELSE NumProduced

\* successful dequeues before the call that has just returned
DequeuedBefore ==
    IF ret.op = "try_dequeue" /\ ret.ok THEN NumConsumed - 1 ELSE NumConsumed

\* C12: RingSPSC of capacity >= 2 under non-overlapping calls: after E successful
\* enqueues and D successful dequeues, try_dequeue returns Empty iff E = D and
\* try_enqueue returns Full iff E - D = capacity.
C12_SpscBoundaries ==
    (variant = "SPSC" /\ capacity_ >= 2) =>
        /\ ret.op = "try_dequeue" => ((~ret.ok) <=> (EnqueuedBefore = DequeuedBefore))
        /\ ret.op = "try_enqueue" =>
              ((~ret.ok) <=> (EnqueuedBefore - DequeuedBefore = capacity_))

\* C12 witness: capacity 4, four enqueues succeeded, one dequeue, and the fifth
\* enqueue has just succeeded
C12_Witness ==
    /\ variant = "SPSC"
    /\ capacity_ = 4
    /\ ret.op = "try_enqueue" /\ ret.ok
    /\ NumProduced = 5
    /\ NumConsumed = 1

\* C13 as stated: a ring of capacity 1, RingSPSC or RingMPMC, is a bounded queue of
\* capacity 1: a try_enqueue called while one element is enqueued and not yet
\* dequeued returns Full, so no such element is overwritten.
C13_CapacityOneIsBounded ==
    (capacity_ = 1 /\ ret.op = "try_enqueue"
                   /\ EnqueuedBefore - DequeuedBefore >= capacity_) => ~ret.ok

\* the value of the latest successful enqueue
LastEnqueued == produced[SpscProducer][Len(produced[SpscProducer])][2]

\* C14: SPSC round trip under non-overlapping calls: on an empty RingSPSC
\* try_enqueue(v) succeeds; the try_dequeue(out) that follows succeeds with out = v;
\* the try_dequeue right after returns Empty and leaves the ring empty (head = tail).
C14_SpscRoundTrip ==
    variant = "SPSC" =>
        /\ (ret.op = "try_enqueue" /\ EnqueuedBefore = DequeuedBefore) => ret.ok
        /\ (ret.op = "try_dequeue" /\ EnqueuedBefore = DequeuedBefore + 1) =>
              /\ ret.ok
              /\ th[ret.thread].out[1] = LastEnqueued
        /\ (ret.op = "try_dequeue" /\ EnqueuedBefore = DequeuedBefore) =>
              /\ ~ret.ok
              /\ head_ = tail_

\* C14 witness: after an enqueue and a dequeue that returned its value, a second
\* try_dequeue has returned Empty on a ring whose slots are in their second use
C14_Witness ==
    /\ variant = "SPSC"
    /\ ret.op = "try_dequeue" /\ ~ret.ok
    /\ head_ = tail_
    /\ NumConsumed > capacity_
    /\ th[ret.thread].out[1] = LastEnqueued

\* C15: SPSC FIFO across the wrap-around: with the producer and the consumer of a
\* RingSPSC (capacity >= 2) running concurrently, the values the successful
\* try_dequeue calls returned are a prefix of the values passed to the successful
\* try_enqueue calls, in the same order.
C15_SpscFifo ==
    (variant = "SPSC" /\ capacity_ >= 2) =>
        /\ Len(consumed[SpscConsumer]) <= Len(produced[SpscProducer])
        /\ \A i \in DOMAIN consumed[SpscConsumer] :
             /\ i <= Len(produced[SpscProducer])
             /\ consumed[SpscConsumer][i] = produced[SpscProducer][i]
             /\ produced[SpscProducer][i] = <<i - 1, Item(SpscProducer, i)>>

\* C15 witness: the consumer has returned more items than the ring has slots
\* while the producer is inside a call
C15_Witness ==
    /\ variant = "SPSC"
    /\ Len(consumed[SpscConsumer]) > capacity_
    /\ consumed[SpscConsumer][capacity_ + 1] = <<capacity_, Item(SpscProducer, capacity_ + 1)>>
    /\ th[SpscProducer].pc = "se_tail"

\* C16: RingMPMC of capacity >= 2, single-item calls that do not overlap: a
\* try_enqueue returns Full exactly when the successful enqueues exceed the
\* successful dequeues by the capacity; so after capacity successes and no dequeue
\* every further try_enqueue returns Full, and after one successful try_dequeue the
\* next try_enqueue succeeds.
C16_MpmcFull ==
    (variant = "MPMC" /\ capacity_ >= 2 /\ ret.op = "try_enqueue") =>
        /\ (EnqueuedBefore = capacity_ /\ DequeuedBefore = 0) => ~ret.ok
        /\ (EnqueuedBefore = capacity_ /\ DequeuedBefore = 1) => ret.ok
        /\ (~ret.ok) <=> (EnqueuedBefore - DequeuedBefore = capacity_)

\* C16 witness: a ring of capacity 4 filled by two producers; after one dequeue the
\* next try_enqueue has succeeded
C16_Witness ==
    /\ variant = "MPMC"
    /\ capacity_ = 4
    /\ ret.op = "try_enqueue" /\ ret.ok
    /\ NumProduced = capacity_ + 1
    /\ NumConsumed = 1
    /\ \A p \in Producers : Len(produced[p]) >= 2

size == tail_ - head_

\* no member function is being executed
NoCallInFlight == \A t \in Threads : th[t].pc = "idle"

\* C18 as stated: in every state of either ring with no operation in flight,
\* size() is the number of successfully enqueued items minus the number of
\* successfully dequeued items and lies in [0, capacity].
C18_SizeAtQuiescence ==
    NoCallInFlight =>
        /\ size = NumProduced - NumConsumed
        /\ 0 <= size
        /\ size <= capacity_

\* the ring's state and the histories of what was constructed and moved out
ring == <<slots_, head_, tail_, produced, consumed>>

\* C19: deadline wrappers of RingSPSC: enqueue_until / dequeue_until return Success
\* exactly from the last step of an attempt that succeeded, having enqueued /
\* dequeued that one element and nothing else; they return Timeout only from the
\* clock check that follows a failed attempt, and then no step of the call has
\* changed the ring or out; every call returns, and a dequeue_until on a ring that
\* stays empty returns Timeout.
C19_DeadlineWrappers ==
    /\ [][LET p == SpscProducer
              c == SpscConsumer
          IN  /\ (th'[p] # th[p] /\ ret'.thread = p /\ ret'.op = "enqueue_until") =>
                   /\ ret'.ok <=> th[p].pc = "eu_tail"
                   /\ ret'.ok =>
                        /\ tail_' = tail_ + 1
                        /\ produced[p] # <<>>
                        /\ produced[p][Len(produced[p])] = <<tail_, th[p].data[1]>>
                        /\ th[p].data[1] = Item(p, Len(produced[p]))
                        /\ UNCHANGED <<slots_, head_, produced, consumed>>
                   /\ ~ret'.ok =>
                        /\ th[p].pc = "eu_clock"
                        /\ th[p].data = Buffer(p, 1)
                        /\ UNCHANGED ring
              /\ (th'[c] # th[c] /\ ret'.thread = c /\ ret'.op = "dequeue_until") =>
                   /\ ret'.ok <=> th[c].pc = "du_head"
                   /\ ret'.ok =>
                        /\ head_' = head_ + 1
                        /\ consumed[c] # <<>>
                        /\ consumed[c][Len(consumed[c])][1] = head_
                        /\ consumed[c][Len(consumed[c])][2] = th'[c].out[1]
                        /\ Len(consumed[c]) = head_'
                        /\ UNCHANGED <<slots_, tail_, produced, consumed>>
                   /\ ~ret'.ok =>
                        /\ th[c].pc = "du_clock"
                        /\ th'[c].out = th[c].out
                        /\ UNCHANGED ring
              /\ \A t \in {p, c} :
                   /\ (th'[t].pc = "eu_clock" /\ th[t].pc # "eu_clock") =>
                        /\ th[t].pc = "eu_seq"
                        /\ Seq_(th[t].pos) # th[t].pos
                   /\ (th'[t].pc = "du_clock" /\ th[t].pc # "du_clock") =>
                        /\ th[t].pc = "du_seq"
                        /\ Seq_(th[t].pos) # th[t].pos + 1
                   /\ (th'[t] # th[t] /\ th[t].pc \in {"eu_seq", "eu_clock", "du_seq", "du_clock"}) =>
                        /\ UNCHANGED ring
                        /\ th'[t].out = th[t].out
         ]_vars
    /\ (th[SpscProducer].pc \in {"eu_seq", "eu_clock", "eu_pub", "eu_tail"})
          ~> (th[SpscProducer].pc = "idle")
    /\ (th[SpscConsumer].pc \in {"du_seq", "du_clock", "du_pub", "du_head"})
          ~> (th[SpscConsumer].pc = "idle")
    /\ (th[SpscConsumer].pc = "du_seq" /\ head_ = MaxItems)
          ~> (ret.thread = SpscConsumer /\ ret.op = "dequeue_until" /\ ~ret.ok)

\* C19 witness: dequeue_until has returned Timeout on a ring that its caller had
\* emptied before, out still holding the last value
C19_Witness ==
    /\ variant = "SPSC"
    /\ ret.op = "dequeue_until" /\ ~ret.ok
    /\ head_ = tail_
    /\ head_ = MaxItems
    /\ th[SpscConsumer].out[1] = Item(SpscProducer, MaxItems)

\* c is a power of two
IsPow2(c) == \E k \in 0..MaxExponent : c = 2 ^ k

\* c is the least power of two that is >= x (1 for x = 0)
LeastPow2AtLeast(c, x) ==
    /\ IsPow2(c)
    /\ c >= x
    /\ \A k \in 0..MaxExponent : 2 ^ k >= x => c <= 2 ^ k

\* requested capacities around every power of two below 2 ^ MaxExponent
EdgeRequests ==
    UNION {{2 ^ k - 1, 2 ^ k, 2 ^ k + 1} : k \in 0..(MaxExponent - 1)}

\* C20: capacity rounding: a ring constructed from a requested capacity x >= 1 has
\* as capacity() the least power of two >= x, and from x = 0 capacity 1;
\* mask = capacity - 1; neither changes after construction.
C20_CapacityRounding ==
    /\ [](ret.op = "construct" =>
            /\ capacity_ = next_pow2(ret.n)
            /\ LeastPow2AtLeast(capacity_, ret.n)
            /\ ret.n = 0 => capacity_ = 1
            /\ DOMAIN slots_ = 0..(capacity_ - 1)
            /\ \A x \in EdgeRequests : LeastPow2AtLeast(next_pow2(x), x))
    /\ [](mask_ = capacity_ - 1 /\ IsPow2(capacity_))
    /\ [][capacity_' = capacity_ /\ mask_' = mask_]_vars

\* C20 witness: a ring constructed from a requested capacity that is not a power
\* of two, with the capacity rounded up to 32
C20_Witness ==
    /\ ret.op = "construct"
    /\ ret.n > 16
    /\ ~IsPow2(ret.n)
    /\ capacity_ = 32
    /\ mask_ = 31

\* logical indices a producer has claimed (CAS won, or fetch_add and the seq match
\* observed) and not yet published
OwnedByProducer(p) ==
    IF th[p].pc \in {"te_pub", "em_pub"}
    THEN {IF th[p].pc = "te_pub" THEN th[p].pos ELSE th[p].start + th[p].i}
    ELSE {}

\* logical indices a consumer has claimed and not yet freed
OwnedByConsumer(c) ==
    IF th[c].pc = "ds_pub" THEN {th[c].start + th[c].i} ELSE ClaimedByConsumer(c)

\* logical indices thread t owns
Owned(t) == IF t \in Producers THEN OwnedByProducer(t) ELSE OwnedByConsumer(t)

\* C21: exclusive slot ownership in RingMPMC (capacity >= 2): no two threads are at
\* once between their claim of a logical index and their publishing store on the
\* same physical slot; a producer in that window has the Empty ticket of its index
\* and storage whose element, if any, was consumed; a consumer in that window has
\* the Written ticket and the element its producer finished writing.
C21_ExclusiveOwnership ==
    /\ \A t \in Threads : \A u \in Threads \ {t} :
         \A a \in Owned(t) : \A b \in Owned(u) : slot(a) # slot(b)
    /\ \A t \in Threads : \A a \in Owned(t) : \A b \in Owned(t) :
         slot(a) = slot(b) => a = b
    /\ \A p \in Producers : \A a \in OwnedByProducer(p) :
         /\ Seq_(a) = a
         /\ Stored(a) = NoVal \/ <<a - capacity_, Stored(a)>> \in AllConsumed
    /\ \A c \in Consumers : \A a \in OwnedByConsumer(c) :
         /\ Seq_(a) = a + 1
         /\ <<a, Stored(a)>> \in AllProduced

\* C21 witness: a producer owns a slot in its second generation while a consumer
\* owns the other slot
C21_Witness ==
    \E p \in Producers : \E c \in Consumers :
        \E a \in OwnedByProducer(p) : \E b \in OwnedByConsumer(c) :
            /\ a >= capacity_
            /\ slot(a) # slot(b)

WaitingForSlot(p) ==
    /\ th[p].pc = "em_wait"
    /\ slots_[slot(th[p].start + th[p].i)].seq # th[p].start + th[p].i

\* C23: irrevocable reservation: enqueue_many advances tail by want = min(n,
\* capacity) in its first step, before it reads any slot, and tail never goes back;
\* a call waiting for a reserved slot that is not free stays in its wait loop, with
\* tail still beyond its reservation, through every step that is not a consumer's:
\* without a consumer that dequeues it never returns.
C23_IrrevocableReservation ==
    /\ [](\A p \in Producers :
            th[p].pc \in {"em_wait", "em_pub"} => tail_ >= th[p].start + th[p].want)
    /\ [][/\ tail_' >= tail_
          /\ \A p \in Producers :
               /\ (th[p].pc = "idle" /\ th'[p].pc = "em_wait") =>
                    /\ tail_' = tail_ + th'[p].want
                    /\ th'[p].want = Min(th'[p].n, capacity_)
                    /\ slots_' = slots_
               /\ (WaitingForSlot(p) /\ \A c \in Consumers : th'[c] = th[c]) =>
                    /\ WaitingForSlot(p)'
                    /\ th'[p] = th[p]
         ]_vars

\* C23 witness: one thread alone, nothing ever dequeued, called enqueue_many on a
\* full ring and waits with tail advanced beyond head + capacity
C23_Witness ==
    \E p \in Producers :
        /\ WaitingForSlot(p)
        /\ Alone(p)
        /\ NumConsumed = 0
        /\ head_ = 0
        /\ tail_ = th[p].start + th[p].want
        /\ tail_ > capacity_

\* C24: lock-freedom of the single-item CAS loops of RingMPMC (capacity >= 2): an
\* iteration of try_enqueue (try_dequeue) that neither returns nor wins its CAS is
\* one in which tail (head) has been advanced by another thread since pos was read,
\* or a spurious failure of the weak CAS with the counter still at pos; a CAS whose
\* counter is at pos and that does not fail spuriously wins.
C24_LockFreeCasLoops ==
    /\ [](/\ \A p \in Producers :
               th[p].pc \in {"te_seq", "te_reload", "te_cas"} => th[p].pos <= tail_
          /\ \A c \in Consumers :
               th[c].pc \in {"td_seq", "td_reload", "td_cas"} => th[c].pos <= head_)
    /\ [][/\ \A p \in Producers :
               /\ (th[p].pc = "te_seq" /\ th'[p].pc = "te_reload") => tail_ > th[p].pos
               /\ (th[p].pc = "te_cas" /\ th'[p].pc = "te_seq") =>
                    /\ tail_ >= th[p].pos
                    /\ th'[p].pos = tail_
                    /\ tail_' = tail_
               /\ (th[p].pc = "te_cas" /\ th'[p].pc = "te_pub") =>
                    /\ tail_ = th[p].pos
                    /\ tail_' = tail_ + 1
          /\ \A c \in Consumers :
               /\ (th[c].pc = "td_seq" /\ th'[c].pc = "td_reload") => head_ > th[c].pos
               /\ (th[c].pc = "td_cas" /\ th'[c].pc = "td_seq") =>
                    /\ head_ >= th[c].pos
                    /\ th'[c].pos = head_
                    /\ head_' = head_
               /\ (th[c].pc = "td_cas" /\ th'[c].pc = "td_pub") =>
                    /\ head_ = th[c].pos
                    /\ head_' = head_ + 1
         ]_vars

\* C24 witness: two producers and two consumers contended; one of each lost its
\* CAS to the other, which holds its claim, and refreshed pos
C24_Witness ==
    /\ \E p \in Producers : \E q \in Producers \ {p} :
         /\ th[p].pc = "te_seq" /\ th[p].pos = tail_
         /\ th[q].pc = "te_pub" /\ th[q].pos = tail_ - 1
    /\ \E c \in Consumers : \E d \in Consumers \ {c} :
         /\ th[c].pc = "td_seq" /\ th[c].pos = head_
         /\ th[d].pc = "td_pub" /\ th[d].pos = head_ - 1

\* program positions inside an enqueue operation of either ring
EnqueuePcs ==
    {"te_seq", "te_reload", "te_cas", "te_pub", "em_wait", "em_pub",
     "se_seq", "se_pub", "se_tail", "eu_seq", "eu_pub", "eu_tail", "eu_clock"}

\* program positions inside a dequeue operation of either ring
DequeuePcs ==
    {"td_seq", "td_reload", "td_cas", "td_pub", "dm_scan", "dm_head", "dm_cas", "dm_pub",
     "ds_wait", "ds_pub", "sd_seq", "sd_pub", "sd_head", "du_seq", "du_pub", "du_head",
     "du_clock"}

\* C25: counter ownership and monotonicity: in both rings no step of an enqueue
\* operation (try_enqueue, enqueue_many, enqueue_until) changes head, no step of a
\* dequeue operation (try_dequeue, dequeue_many, dequeue_until) changes tail, and
\* every step leaves head and tail at least as large as they were.
C25_CounterOwnership ==
    [][/\ head_' >= head_
       /\ tail_' >= tail_
       /\ \A t \in Threads :
            /\ (th'[t] # th[t] /\ (th[t].pc \in EnqueuePcs \/ th'[t].pc \in EnqueuePcs)) =>
                 head_' = head_
            /\ (th'[t] # th[t] /\ (th[t].pc \in DequeuePcs \/ th'[t].pc \in DequeuePcs)) =>
                 tail_' = tail_
      ]_vars

\* C25 witness: a RingSPSC on which enqueue_until and dequeue_until have moved the
\* counters past the capacity, dequeue_until having just stored head
C25_Witness ==
    /\ variant = "SPSC"
    /\ ret.op = "dequeue_until" /\ ret.ok
    /\ head_ = tail_ /\ head_ > capacity_
    /\ \E k \in 1..Len(produced[SpscProducer]) : k > capacity_

\* the number of entries of the histories h (one per thread) that lie in slot s
WritesTo(h, s) ==
    SumOver(DOMAIN h,
            [t \in DOMAIN h |-> Cardinality({k \in 1..Len(h[t]) : slot(h[t][k][1]) = s})])

\* the step is the seq store of the producer that claimed logical index i
ProducerWrites(i) ==
    \E p \in Producers :
        /\ Len(produced'[p]) = Len(produced[p]) + 1
        /\ produced'[p][Len(produced'[p])][1] = i

\* the step is the seq store of the consumer that claimed logical index i
ConsumerWrites(i) ==
    \E c \in Consumers :
        /\ Len(consumed'[c]) = Len(consumed[c]) + 1
        /\ consumed'[c][Len(consumed'[c])][1] = i

\* C26: slot lifecycle: in both rings every write to a slot's seq is a change from
\* i to i + 1 by the producer that claimed logical index i, or a change from i + 1 to
\* i + capacity by the consumer that claimed logical index i; each slot's seq
\* strictly increases with every write, and the writes to a slot alternate between
\* a producer and a consumer, beginning with a producer.
C26_SlotLifecycle ==
    [][/\ \A s \in 0..(capacity_ - 1) :
            slots_'[s].seq # slots_[s].seq =>
                \E i \in 0..MaxItems : slot(i) = s /\ (ProducerWrites(i) \/ ConsumerWrites(i))
       /\ \A i \in 0..MaxItems :
            /\ ProducerWrites(i) =>
                 /\ Seq_(i) = i
                 /\ Seq_(i)' = i + 1
                 /\ WritesTo(produced, slot(i)) = WritesTo(consumed, slot(i))
            /\ ConsumerWrites(i) =>
                 /\ Seq_(i) = i + 1
                 /\ Seq_(i)' = i + capacity_
                 /\ Seq_(i)' > Seq_(i)
                 /\ WritesTo(produced, slot(i)) = WritesTo(consumed, slot(i)) + 1
      ]_vars

\* C27: restricted counter invariant: on a RingMPMC of capacity >= 2 used only
\* through try_enqueue, try_dequeue and dequeue_many(ptr, n), every reachable state
\* has 0 <= tail - head <= capacity, so size() never exceeds the capacity.
C27_RestrictedCounterInvariant ==
    /\ 0 <= tail_ - head_
    /\ tail_ - head_ <= capacity_
    /\ size <= capacity_

\* C27 witness: the ring has wrapped and a try_enqueue has just filled it again
\* while a consumer is about to claim at head
C27_Witness ==
    /\ capacity_ >= 2
    /\ tail_ - head_ = capacity_ /\ head_ > 0
    /\ ret.op = "try_enqueue" /\ ret.ok
    /\ \E c \in Consumers : th[c].pc \in {"td_cas", "dm_cas"} /\ th[c].pos = head_

C32_AtLeastOneAttempt ==
    [][LET p == SpscProducer
           c == SpscConsumer
       IN  /\ (th[p].pc = "idle" /\ th'[p].pc \notin {"idle", "se_seq"}) =>
                /\ th'[p].pc = "eu_seq"
                /\ th'[p].pos = tail_
           /\ th[p].pc = "eu_seq" /\ th'[p] # th[p] =>
                th'[p].pc = IF Seq_(th[p].pos) = th[p].pos THEN "eu_pub" ELSE "eu_clock"
           /\ th[p].pc = "eu_pub" /\ th'[p] # th[p] => th'[p].pc = "eu_tail"
           /\ th[p].pc = "eu_tail" /\ th'[p] # th[p] =>
                /\ th'[p].pc = "idle"
                /\ ret' = [thread |-> p, op |-> "enqueue_until", n |-> 0, ok |-> TRUE,
                           count |-> 0]
                /\ Len(produced'[p]) = tail_'
           /\ th[p].pc = "eu_clock" /\ th'[p] # th[p] =>
                /\ th'[p].pc = "idle"
                /\ ret' = [thread |-> p, op |-> "enqueue_until", n |-> 0, ok |-> FALSE,
                           count |-> 0]
                /\ UNCHANGED ring
           /\ (th[c].pc = "idle" /\ th'[c].pc \notin {"idle", "sd_seq"}) =>
                /\ th'[c].pc = "du_seq"
                /\ th'[c].pos = head_
           /\ th[c].pc = "du_seq" /\ th'[c] # th[c] =>
                th'[c].pc = IF Seq_(th[c].pos) = th[c].pos + 1 THEN "du_pub" ELSE "du_clock"
           /\ th[c].pc = "du_pub" /\ th'[c] # th[c] => th'[c].pc = "du_head"
           /\ th[c].pc = "du_head" /\ th'[c] # th[c] =>
                /\ th'[c].pc = "idle"
                /\ ret' = [thread |-> c, op |-> "dequeue_until", n |-> 0, ok |-> TRUE,
                           count |-> 0]
                /\ Len(consumed'[c]) = head_'
           /\ th[c].pc = "du_clock" /\ th'[c] # th[c] =>
                /\ th'[c].pc = "idle"
                /\ ret' = [thread |-> c, op |-> "dequeue_until", n |-> 0, ok |-> FALSE,
                           count |-> 0]
                /\ UNCHANGED ring
                /\ th'[c].out = th[c].out
      ]_vars

\* C32 witness: a dequeue_until call with a passed deadline has returned Success
\* from its one attempt, on a ring filled by enqueue_until calls of the same kind
C32_Witness ==
    /\ ret.thread = SpscConsumer /\ ret.op = "dequeue_until" /\ ret.ok
    /\ head_ > capacity_
    /\ \E k \in 1..Len(consumed[SpscConsumer]) :
         consumed[SpscConsumer][k] \in Range(produced[SpscProducer])

\* the seq a slot holds after E successful enqueues and D successful dequeues that
\* did not overlap, whichever ring executed them: with i the last logical index
\* below E that lies in slot k, i + 1 while i is not dequeued, i + capacity once it
\* is, and k if there is no such index
CanonSeq(k, E, D) ==
    LET used == {i \in 0..(E - 1) : slot(i) = k} IN
      IF used = {} THEN k
      ELSE LET i == CHOOSE j \in used : \A m \in used : m <= j IN
             IF i >= D THEN i + 1 ELSE i + capacity_

\* C33: SPSC/MPMC equivalence under sequential use: for every capacity >= 2 and
\* every sequence of try_enqueue / try_dequeue calls that do not overlap, the result
\* of each call, the dequeued value, and head, tail and every slot's seq after each
\* call are one and the same function of the calls made so far for a RingSPSC and
\* for a RingMPMC: try_enqueue succeeds iff fewer than capacity items are enqueued,
\* taking the next logical index; try_dequeue succeeds iff an item is enqueued,
\* returning the value at the oldest index; head and tail count the successes.
C33_SequentialEquivalence ==
    capacity_ >= 2 =>
        /\ NoCallInFlight =>
             /\ head_ = NumConsumed
             /\ tail_ = NumProduced
             /\ \A k \in 0..(capacity_ - 1) :
                  slots_[k].seq = CanonSeq(k, NumProduced, NumConsumed)
        /\ ret.op = "try_enqueue" =>
             /\ ret.ok <=> (EnqueuedBefore - DequeuedBefore < capacity_)
             /\ ret.ok =>
                  produced[ret.thread][Len(produced[ret.thread])][1] = EnqueuedBefore
        /\ ret.op = "try_dequeue" =>
             /\ ret.ok <=> (EnqueuedBefore > DequeuedBefore)
             /\ ret.ok =>
                  /\ <<DequeuedBefore, th[ret.thread].out[1]>> \in AllProduced
                  /\ consumed[ret.thread][Len(consumed[ret.thread])]
                        = <<DequeuedBefore, th[ret.thread].out[1]>>

\* C33 witness: a ring has wrapped and its last item has just been dequeued
C33_Witness ==
    /\ capacity_ >= 2
    /\ NoCallInFlight
    /\ ret.op = "try_dequeue" /\ ret.ok
    /\ NumProduced > capacity_
    /\ head_ = tail_

====
